---- MODULE Spec2Model ----
(***************************************************************************)
(* The Content trait of ramhorns (src/content.rs) and its built-in         *)
(* implementations, as pure operators over a bounded universe of values,   *)
(* driven by a state machine that binds one value and calls the trait's    *)
(* operations on it.                                                       *)
(***************************************************************************)
EXTENDS Integers, Sequences, FiniteSets, TLC

VARIABLES content, op, args, result, encoder, shared, threads

vars == <<content, op, args, result, encoder, shared, threads>>

(***************************************************************************)
(* Bounds of the model.                                                    *)
(***************************************************************************)
\* longest Vec / slice
MaxLen == 2
\* largest integer magnitude bound as content
MaxInt == 1
\* a sink fails at its k-th write for some k in 1..MaxFail, or never (0)
MaxFail == 3
\* number of concurrent render operations sharing one Arc
NumThreads == 2

(***************************************************************************)
(* Program constants.                                                      *)
(***************************************************************************)
\* capacity_hint of bool and of every number type
NumberCapacity == 5
\* std::f32::EPSILON and std::f64::EPSILON, in units of half an epsilon: a
\* float is modelled by the integer count m of half-epsilons it holds
EPSILON == 2

(***************************************************************************)
(* Content values.  Every value is a record with a kind k.                 *)
(***************************************************************************)
Unit == [k |-> "unit"]
Str(s) == [k |-> "str", s |-> s]
String(s) == [k |-> "String", s |-> s]
Bool(b) == [k |-> "bool", b |-> b]
Integer(n) == [k |-> "int", n |-> n]
F32(m) == [k |-> "f32", m |-> m]
F64(m) == [k |-> "f64", m |-> m]
None == [k |-> "None"]
Some(v) == [k |-> "Some", v |-> v]
Ok(v) == [k |-> "Ok", v |-> v]
Err(e) == [k |-> "Err", e |-> e]
Vec(items) == [k |-> "Vec", items |-> items]
Slice(items) == [k |-> "slice", items |-> items]
HashMap(entries) == [k |-> "HashMap", entries |-> entries]
BTreeMap(entries) == [k |-> "BTreeMap", entries |-> entries]
Pointer(p, v) == [k |-> p, v |-> v]

\* impl_pointer_types!(&T, Box<T>, Rc<T>, Arc<T>, Cow<'_, T>)
PointerKinds == {"Ref", "Box", "Rc", "Arc", "Cow"}
NumberKinds == {"int", "f32", "f64"}
TextKinds == {"str", "String"}
SeqKinds == {"Vec", "slice"}
MapKinds == {"HashMap", "BTreeMap"}

\* Deref::deref
deref(c) == c.v

Abs(n) == IF n < 0 THEN -n ELSE n

(***************************************************************************)
(* The encoder (output sink).  Its log holds every call made to it and to  *)
(* the bound section, in order; n counts the writes; the write number      *)
(* failAt fails (0: the sink never fails).                                 *)
(***************************************************************************)
NewEncoder(f) == [log |-> << >>, n |-> 0, failAt |-> f]

ResOk == [t |-> "Ok"]
ResFound(b) == [t |-> "Ok", found |-> b]
ResErr(e) == [t |-> "Err", e |-> e]
IsErr(r) == r.res.t = "Err"
Ret(res, enc) == [res |-> res, enc |-> enc]

\* one call on the Encoder: logged, and failing when it is write number failAt
Write(enc, ev) ==
    LET n == enc.n + 1
        ok == enc.failAt # n
        e2 == [enc EXCEPT !.n = n,
                          !.log = Append(@, [ev EXCEPT !.ok = ok])]
    IN  Ret(IF ok THEN ResOk ELSE ResErr(n), e2)

write_escaped(enc, s) == Write(enc, [call |-> "write_escaped", text |-> s, ok |-> TRUE])
write_unescaped(enc, s) == Write(enc, [call |-> "write_unescaped", text |-> s, ok |-> TRUE])
format_unescaped(enc, c) == Write(enc, [call |-> "format_unescaped", num |-> c, ok |-> TRUE])
\* crate::cmark::encode
cmark_encode(s, enc) == Write(enc, [call |-> "cmark::encode", text |-> s, ok |-> TRUE])

\* the `?` operator followed by Ok(()): an error returns, a success is dropped
Try(r) == IF IsErr(r) THEN r ELSE Ret(ResOk, r.enc)

\* Result::map(|_| true)
MapTrue(r) == IF IsErr(r) THEN r ELSE Ret(ResFound(TRUE), r.enc)

(***************************************************************************)
(* is_truthy                                                               *)
(***************************************************************************)
RECURSIVE is_truthy(_)

\* trait default
Content_is_truthy(c) == TRUE
\* &str, String
Text_is_truthy(c) == c.s # << >>
Bool_is_truthy(c) == c.b
\* impl_number_types!
Number_is_truthy(c) == c.n # 0
\* f32, f64
Float_is_truthy(c) == Abs(c.m) > EPSILON
Option_is_truthy(c) == c.k = "Some"
\* faulty variant: the override forgotten, the trait's default applies
Result_is_truthy_default(c) == TRUE
Result_is_truthy(c) == c.k = "Ok"
\* faulty variant: the override forgotten, the trait's default applies
Seq_is_truthy_default(c) == TRUE
\* Vec<T>, &[T]
Seq_is_truthy(c) == c.items # << >>
\* HashMap, BTreeMap
Map_is_truthy(c) == DOMAIN c.entries # {}
Pointer_is_truthy(c) == is_truthy(deref(c))

is_truthy(c) ==
    CASE c.k \in TextKinds -> Text_is_truthy(c)
      [] c.k = "bool" -> Bool_is_truthy(c)
      [] c.k = "int" -> Number_is_truthy(c)
      [] c.k \in {"f32", "f64"} -> Float_is_truthy(c)
      [] c.k \in {"Some", "None"} -> Option_is_truthy(c)
      [] c.k \in {"Ok", "Err"} -> Result_is_truthy(c)
      [] c.k \in SeqKinds -> Seq_is_truthy(c)
      [] c.k \in MapKinds -> Map_is_truthy(c)
      [] c.k \in PointerKinds -> Pointer_is_truthy(c)
      [] OTHER -> Content_is_truthy(c)

(***************************************************************************)
(* capacity_hint                                                           *)
(***************************************************************************)
RECURSIVE capacity_hint(_, _)

Content_capacity_hint(c, tpl) == 0
Text_capacity_hint(c, tpl) == Len(c.s)
Bool_capacity_hint(c, tpl) == NumberCapacity
Number_capacity_hint(c, tpl) == NumberCapacity
Option_capacity_hint(c, tpl) == IF c.k = "Some" THEN capacity_hint(c.v, tpl) ELSE 0
Result_capacity_hint(c, tpl) == IF c.k = "Ok" THEN capacity_hint(c.v, tpl) ELSE 0
Pointer_capacity_hint(c, tpl) == capacity_hint(deref(c), tpl)

capacity_hint(c, tpl) ==
    CASE c.k \in TextKinds -> Text_capacity_hint(c, tpl)
      [] c.k = "bool" -> Bool_capacity_hint(c, tpl)
      [] c.k \in NumberKinds -> Number_capacity_hint(c, tpl)
      [] c.k \in {"Some", "None"} -> Option_capacity_hint(c, tpl)
      [] c.k \in {"Ok", "Err"} -> Result_capacity_hint(c, tpl)
      [] c.k \in PointerKinds -> Pointer_capacity_hint(c, tpl)
      [] OTHER -> Content_capacity_hint(c, tpl)

(***************************************************************************)
(* render_escaped, render_unescaped, render_cmark                          *)
(***************************************************************************)
RECURSIVE render_escaped(_, _)
RECURSIVE render_unescaped(_, _)

Content_render_escaped(c, enc) == Ret(ResOk, enc)
Text_render_escaped(c, enc) == write_escaped(enc, c.s)
Bool_render_escaped(c, enc) ==
    write_unescaped(enc, IF c.b THEN <<"t", "r", "u", "e">>
                                ELSE <<"f", "a", "l", "s", "e">>)
\* impl_number_types!, f32, f64
Number_render_escaped(c, enc) == format_unescaped(enc, c)
\* faulty variant: the `?` forgotten, the payload's failure is dropped
Option_render_escaped_swallow(c, enc) ==
    IF c.k = "Some" THEN Ret(ResOk, render_escaped(c.v, enc).enc) ELSE Ret(ResOk, enc)
Option_render_escaped(c, enc) ==
    IF c.k = "Some" THEN Try(render_escaped(c.v, enc)) ELSE Ret(ResOk, enc)
Result_render_escaped(c, enc) ==
    IF c.k = "Ok" THEN Try(render_escaped(c.v, enc)) ELSE Ret(ResOk, enc)
Pointer_render_escaped(c, enc) == render_escaped(deref(c), enc)

render_escaped(c, enc) ==
    CASE c.k \in TextKinds -> Text_render_escaped(c, enc)
      [] c.k = "bool" -> Bool_render_escaped(c, enc)
      [] c.k \in NumberKinds -> Number_render_escaped(c, enc)
      [] c.k \in {"Some", "None"} -> Option_render_escaped(c, enc)
      [] c.k \in {"Ok", "Err"} -> Result_render_escaped(c, enc)
      [] c.k \in PointerKinds -> Pointer_render_escaped(c, enc)
      [] OTHER -> Content_render_escaped(c, enc)

Content_render_unescaped(c, enc) == render_escaped(c, enc)
Text_render_unescaped(c, enc) == write_unescaped(enc, c.s)
Option_render_unescaped(c, enc) ==
    IF c.k = "Some" THEN Try(render_unescaped(c.v, enc)) ELSE Ret(ResOk, enc)
Result_render_unescaped(c, enc) ==
    IF c.k = "Ok" THEN Try(render_unescaped(c.v, enc)) ELSE Ret(ResOk, enc)
Pointer_render_unescaped(c, enc) == render_unescaped(deref(c), enc)

render_unescaped(c, enc) ==
    CASE c.k \in TextKinds -> Text_render_unescaped(c, enc)
      [] c.k \in {"Some", "None"} -> Option_render_unescaped(c, enc)
      [] c.k \in {"Ok", "Err"} -> Result_render_unescaped(c, enc)
      [] c.k \in PointerKinds -> Pointer_render_unescaped(c, enc)
      [] OTHER -> Content_render_unescaped(c, enc)

Content_render_cmark(c, enc) == render_escaped(c, enc)
Text_render_cmark(c, enc) == cmark_encode(c.s, enc)

\* only &str and String override render_cmark
render_cmark(c, enc) ==
    CASE c.k \in TextKinds -> Text_render_cmark(c, enc)
      [] OTHER -> Content_render_cmark(c, enc)

(***************************************************************************)
(* The bound section.  Its body is a sequence of tags, rendered in order   *)
(* against the scope: "text" writes a literal, "esc" renders the scope     *)
(* escaped, "unesc" renders it unescaped.  The first failure stops it.     *)
(***************************************************************************)
SectionText == <<"-">>

render_tag(tag, scope, enc) ==
    CASE tag = "text" -> write_unescaped(enc, SectionText)
      [] tag = "esc" -> render_escaped(scope, enc)
      [] tag = "unesc" -> render_unescaped(scope, enc)

RECURSIVE render_tags(_, _, _, _)
render_tags(section, i, scope, enc) ==
    IF i > Len(section) THEN Ret(ResOk, enc)
    ELSE LET r == render_tag(section[i], scope, enc)
         IN  IF IsErr(r) THEN r ELSE render_tags(section, i + 1, scope, r.enc)

\* Section::render_once
render_once(section, scope, enc) ==
    render_tags(section, 1, scope,
        [enc EXCEPT !.log = Append(@, [call |-> "render_once", scope |-> scope, ok |-> TRUE])])

(***************************************************************************)
(* render_section, render_inverse                                          *)
(***************************************************************************)
RECURSIVE render_section(_, _, _)
RECURSIVE render_inverse(_, _, _)

Content_render_section(c, section, enc) ==
    IF is_truthy(c) THEN render_once(section, c, enc) ELSE Ret(ResOk, enc)

Content_render_inverse(c, section, enc) ==
    IF ~is_truthy(c) THEN render_once(section, c, enc) ELSE Ret(ResOk, enc)

\* faulty variant: the Option itself, not its payload, becomes the scope
Option_render_section_self(c, section, enc) ==
    IF c.k = "Some" THEN Try(render_once(section, c, enc)) ELSE Ret(ResOk, enc)
\* faulty variant: the payload's own render_section instead of one render of the section
Option_render_section_inner(c, section, enc) ==
    IF c.k = "Some" THEN Try(render_section(c.v, section, enc)) ELSE Ret(ResOk, enc)
Option_render_section(c, section, enc) ==
    IF c.k = "Some" THEN Try(render_once(section, c.v, enc)) ELSE Ret(ResOk, enc)

Result_render_section(c, section, enc) ==
    IF c.k = "Ok" THEN Try(render_once(section, c.v, enc)) ELSE Ret(ResOk, enc)

\* the body of the loop: section.render_once(item, encoder)
Seq_iter_step(items, i, section, enc) == render_once(section, items[i], enc)

\* for item in self.iter() { section.render_once(item, encoder)?; }
RECURSIVE Seq_iter(_, _, _, _)
Seq_iter(items, i, section, enc) ==
    IF i > Len(items) THEN Ret(ResOk, enc)
    ELSE LET r == Seq_iter_step(items, i, section, enc)
         IN  IF IsErr(r) THEN r ELSE Seq_iter(items, i + 1, section, r.enc)

\* faulty variant: every element is rendered, a failure is only reported at the end
RECURSIVE Seq_iter_no_abort(_, _, _, _, _)
Seq_iter_no_abort(items, i, section, enc, res) ==
    IF i > Len(items) THEN Ret(res, enc)
    ELSE LET r == Seq_iter_step(items, i, section, enc)
         IN  Seq_iter_no_abort(items, i + 1, section, r.enc,
                               IF res.t = "Err" THEN res ELSE r.res)

\* faulty variant: the loop starts at the second element
Vec_render_section_skip_first(c, section, enc) == Seq_iter(c.items, 2, section, enc)
\* faulty variant: the loop runs over a drained copy and renders nothing
Vec_render_section_skip_all(c, section, enc) == Ret(ResOk, enc)
Vec_render_section(c, section, enc) == Seq_iter(c.items, 1, section, enc)
Slice_render_section_no_abort(c, section, enc) ==
    Seq_iter_no_abort(c.items, 1, section, enc, ResOk)
Slice_render_section(c, section, enc) == Seq_iter(c.items, 1, section, enc)

Pointer_render_section(c, section, enc) == render_section(deref(c), section, enc)
Pointer_render_inverse(c, section, enc) == render_inverse(deref(c), section, enc)

render_section(c, section, enc) ==
    CASE c.k \in {"Some", "None"} -> Option_render_section(c, section, enc)
      [] c.k \in {"Ok", "Err"} -> Result_render_section(c, section, enc)
      [] c.k = "Vec" -> Vec_render_section(c, section, enc)
      [] c.k = "slice" -> Slice_render_section(c, section, enc)
      [] c.k \in PointerKinds -> Pointer_render_section(c, section, enc)
      [] OTHER -> Content_render_section(c, section, enc)

render_inverse(c, section, enc) ==
    CASE c.k \in PointerKinds -> Pointer_render_inverse(c, section, enc)
      [] OTHER -> Content_render_inverse(c, section, enc)

(***************************************************************************)
(* render_field_escaped / unescaped / section / inverse                    *)
(***************************************************************************)
RECURSIVE render_field_escaped(_, _, _, _)
RECURSIVE render_field_unescaped(_, _, _, _)
RECURSIVE render_field_section(_, _, _, _, _)
RECURSIVE render_field_inverse(_, _, _, _, _)

Content_render_field_escaped(c, hash, name, enc) == Ret(ResFound(FALSE), enc)
Content_render_field_unescaped(c, hash, name, enc) == Ret(ResFound(FALSE), enc)
Content_render_field_section(c, hash, name, section, enc) == Ret(ResFound(FALSE), enc)
Content_render_field_inverse(c, hash, name, section, enc) == Ret(ResFound(FALSE), enc)

\* self.get(name)
Map_get(c, name) == IF name \in DOMAIN c.entries THEN Some(c.entries[name]) ELSE None

HashMap_render_field_escaped(c, hash, name, enc) ==
    LET g == Map_get(c, name)
    IN  IF g.k = "Some" THEN MapTrue(render_escaped(g.v, enc)) ELSE Ret(ResFound(FALSE), enc)
HashMap_render_field_unescaped(c, hash, name, enc) ==
    LET g == Map_get(c, name)
    IN  IF g.k = "Some" THEN MapTrue(render_unescaped(g.v, enc)) ELSE Ret(ResFound(FALSE), enc)
HashMap_render_field_section(c, hash, name, section, enc) ==
    LET g == Map_get(c, name)
    IN  IF g.k = "Some" THEN MapTrue(render_section(g.v, section, enc))
        ELSE Ret(ResFound(FALSE), enc)
HashMap_render_field_inverse(c, hash, name, section, enc) ==
    LET g == Map_get(c, name)
    IN  IF g.k = "Some" THEN MapTrue(render_inverse(g.v, section, enc))
        ELSE Ret(ResFound(FALSE), enc)

BTreeMap_render_field_escaped(c, hash, name, enc) ==
    LET g == Map_get(c, name)
    IN  IF g.k = "Some" THEN MapTrue(render_escaped(g.v, enc)) ELSE Ret(ResFound(FALSE), enc)
BTreeMap_render_field_unescaped(c, hash, name, enc) ==
    LET g == Map_get(c, name)
    IN  IF g.k = "Some" THEN MapTrue(render_unescaped(g.v, enc)) ELSE Ret(ResFound(FALSE), enc)
\* faulty variant: found reports the value's truthiness, not the key's presence
BTreeMap_render_field_section_truthy(c, hash, name, section, enc) ==
    LET g == Map_get(c, name)
        r == render_section(g.v, section, enc)
    IN  IF g.k = "Some"
        THEN (IF IsErr(r) THEN r ELSE Ret(ResFound(is_truthy(g.v)), r.enc))
        ELSE Ret(ResFound(FALSE), enc)
BTreeMap_render_field_section(c, hash, name, section, enc) ==
    LET g == Map_get(c, name)
    IN  IF g.k = "Some" THEN MapTrue(render_section(g.v, section, enc))
        ELSE Ret(ResFound(FALSE), enc)
BTreeMap_render_field_inverse(c, hash, name, section, enc) ==
    LET g == Map_get(c, name)
    IN  IF g.k = "Some" THEN MapTrue(render_inverse(g.v, section, enc))
        ELSE Ret(ResFound(FALSE), enc)

Pointer_render_field_escaped(c, hash, name, enc) ==
    render_field_escaped(deref(c), hash, name, enc)
Pointer_render_field_unescaped(c, hash, name, enc) ==
    render_field_unescaped(deref(c), hash, name, enc)
Pointer_render_field_section(c, hash, name, section, enc) ==
    render_field_section(deref(c), hash, name, section, enc)
Pointer_render_field_inverse(c, hash, name, section, enc) ==
    render_field_inverse(deref(c), hash, name, section, enc)

render_field_escaped(c, hash, name, enc) ==
    CASE c.k = "HashMap" -> HashMap_render_field_escaped(c, hash, name, enc)
      [] c.k = "BTreeMap" -> BTreeMap_render_field_escaped(c, hash, name, enc)
      [] c.k \in PointerKinds -> Pointer_render_field_escaped(c, hash, name, enc)
      [] OTHER -> Content_render_field_escaped(c, hash, name, enc)

render_field_unescaped(c, hash, name, enc) ==
    CASE c.k = "HashMap" -> HashMap_render_field_unescaped(c, hash, name, enc)
      [] c.k = "BTreeMap" -> BTreeMap_render_field_unescaped(c, hash, name, enc)
      [] c.k \in PointerKinds -> Pointer_render_field_unescaped(c, hash, name, enc)
      [] OTHER -> Content_render_field_unescaped(c, hash, name, enc)

render_field_section(c, hash, name, section, enc) ==
    CASE c.k = "HashMap" -> HashMap_render_field_section(c, hash, name, section, enc)
      [] c.k = "BTreeMap" -> BTreeMap_render_field_section(c, hash, name, section, enc)
      [] c.k \in PointerKinds -> Pointer_render_field_section(c, hash, name, section, enc)
      [] OTHER -> Content_render_field_section(c, hash, name, section, enc)

render_field_inverse(c, hash, name, section, enc) ==
    CASE c.k = "HashMap" -> HashMap_render_field_inverse(c, hash, name, section, enc)
      [] c.k = "BTreeMap" -> BTreeMap_render_field_inverse(c, hash, name, section, enc)
      [] c.k \in PointerKinds -> Pointer_render_field_inverse(c, hash, name, section, enc)
      [] OTHER -> Content_render_field_inverse(c, hash, name, section, enc)

(***************************************************************************)
(* The bounded universe of content values.                                 *)
(***************************************************************************)
Texts == {<< >>, <<"<", "b", ">">>}
FloatCounts == {0, EPSILON, EPSILON + 1, -(EPSILON + 1)}

Scalars ==
    {Unit} \cup {Str(t) : t \in Texts} \cup {String(t) : t \in Texts}
    \cup {Bool(b) : b \in BOOLEAN}
    \cup {Integer(n) : n \in -MaxInt..MaxInt}
    \cup {F32(m) : m \in FloatCounts} \cup {F64(m) : m \in FloatCounts}

\* element types T of Vec<T>, &[T] and of the maps' values: String, an
\* integer type, Option<String>, Vec<integer>
StringElems == {String(t) : t \in Texts}
IntElems == {Integer(n) : n \in 0..MaxInt}
OptionElems == {None} \cup {Some(e) : e \in StringElems}
ElemTypes == {StringElems, IntElems, OptionElems}

SeqsOver(T) == UNION {[1..n -> T] : n \in 0..MaxLen}
Vecs == {Vec(s) : s \in UNION {SeqsOver(T) : T \in ElemTypes}}
Slices == {Slice(s) : s \in UNION {SeqsOver(T) : T \in ElemTypes}}
IntVecs == {Vec(s) : s \in SeqsOver(IntElems)}

Names == {"k", "j"}
Hashes == {0, 1}
EntriesOver(T) == UNION {[D -> T] : D \in SUBSET Names}

Payloads ==
    Scalars \cup IntVecs \cup OptionElems
    \cup {Pointer("Box", e) : e \in StringElems}
    \cup {HashMap(m) : m \in [{"k"} -> StringElems] \cup {<< >>}}
Options == {None} \cup {Some(v) : v \in Payloads}
Errors == {"e1", "e2"}
Results == {Ok(v) : v \in Payloads} \cup {Err(e) : e \in Errors}

VecElems == {Vec(<< >>), Vec(<<Integer(0)>>)}
ValueTypes == {StringElems, OptionElems, VecElems}
HashMaps == {HashMap(m) : m \in UNION {EntriesOver(T) : T \in ValueTypes}}
BTreeMaps == {BTreeMap(m) : m \in UNION {EntriesOver(T) : T \in ValueTypes}}

Pointees ==
    Scalars \cup IntVecs \cup {Slice(<< >>)}
    \cup {None, Some(String(<< >>)), Some(Integer(MaxInt))}
    \cup {Ok(String(<<"<", "b", ">">>)), Err("e1")}
    \cup {HashMap(m) : m \in EntriesOver(StringElems)}
    \cup {BTreeMap(m) : m \in EntriesOver(OptionElems)}
\* a pointer to a value, and pointers to pointers to text
Pointers ==
    {Pointer(p, v) : p \in PointerKinds, v \in Pointees}
    \cup {Pointer(p, Pointer("Box", e)) : p \in PointerKinds, e \in StringElems}

Values == Scalars \cup Vecs \cup Slices \cup Options \cup Results
          \cup HashMaps \cup BTreeMaps \cup Pointers

Sections == {<<"text">>, <<"esc", "text">>, <<"unesc">>}
Templates == {"tpl1", "tpl2"}
FailAts == 0..MaxFail

(***************************************************************************)
(* The state machine: one value is bound as content; every action is one   *)
(* call of an operation of the trait on it, with a fresh encoder.  The     *)
(* operations are pure functions of the value and their arguments, so a    *)
(* behaviour is one call: Init draws the value, the action the arguments.  *)
(***************************************************************************)
NoArgs == [hash |-> 0, name |-> "", section |-> << >>, tpl |-> "", failAt |-> 0]
NoResult == [t |-> "none"]

\* operation o of the trait called on c with the arguments a and a fresh
\* encoder; static dispatch picks the implementation by the type of c
Apply(o, c, a) ==
    LET enc == NewEncoder(a.failAt)
    IN  CASE o = "is_truthy" -> Ret([t |-> "bool", b |-> is_truthy(c)], enc)
          [] o = "capacity_hint" -> Ret([t |-> "usize", n |-> capacity_hint(c, a.tpl)], enc)
          [] o = "render_escaped" -> render_escaped(c, enc)
          [] o = "render_unescaped" -> render_unescaped(c, enc)
          [] o = "render_cmark" -> render_cmark(c, enc)
          [] o = "render_section" -> render_section(c, a.section, enc)
          [] o = "render_inverse" -> render_inverse(c, a.section, enc)
          [] o = "render_field_escaped" -> render_field_escaped(c, a.hash, a.name, enc)
          [] o = "render_field_unescaped" -> render_field_unescaped(c, a.hash, a.name, enc)
          [] o = "render_field_section" ->
                render_field_section(c, a.hash, a.name, a.section, enc)
          [] o = "render_field_inverse" ->
                render_field_inverse(c, a.hash, a.name, a.section, enc)

Init ==
    /\ content \in Values
    /\ op = "new"
    /\ args = NoArgs
    /\ result = NoResult
    /\ encoder = NewEncoder(0)
    /\ shared = Unit
    /\ threads = << >>

Called(o, a) ==
    /\ op' = o
    /\ args' = a
    /\ result' = Apply(o, content, a).res
    /\ encoder' = Apply(o, content, a).enc
    /\ UNCHANGED <<content, shared, threads>>

IsTruthy ==
    /\ op = "new"
    /\ Called("is_truthy", NoArgs)

CapacityHint ==
    /\ op = "new"
    /\ \E tpl \in Templates : Called("capacity_hint", [NoArgs EXCEPT !.tpl = tpl])

RenderEscaped ==
    /\ op = "new"
    /\ \E f \in FailAts : Called("render_escaped", [NoArgs EXCEPT !.failAt = f])

RenderUnescaped ==
    /\ op = "new"
    /\ \E f \in FailAts : Called("render_unescaped", [NoArgs EXCEPT !.failAt = f])

RenderCmark ==
    /\ op = "new"
    /\ \E f \in FailAts : Called("render_cmark", [NoArgs EXCEPT !.failAt = f])

RenderSection ==
    /\ op = "new"
    /\ \E f \in FailAts, sec \in Sections :
        Called("render_section", [NoArgs EXCEPT !.failAt = f, !.section = sec])

RenderInverse ==
    /\ op = "new"
    /\ \E f \in FailAts, sec \in Sections :
        Called("render_inverse", [NoArgs EXCEPT !.failAt = f, !.section = sec])

RenderFieldEscaped ==
    /\ op = "new"
    /\ \E f \in FailAts, h \in Hashes, nm \in Names :
        Called("render_field_escaped",
               [NoArgs EXCEPT !.failAt = f, !.hash = h, !.name = nm])

RenderFieldUnescaped ==
    /\ op = "new"
    /\ \E f \in FailAts, h \in Hashes, nm \in Names :
        Called("render_field_unescaped",
               [NoArgs EXCEPT !.failAt = f, !.hash = h, !.name = nm])

RenderFieldSection ==
    /\ op = "new"
    /\ \E f \in FailAts, h \in Hashes, nm \in Names, sec \in Sections :
        Called("render_field_section",
               [NoArgs EXCEPT !.failAt = f, !.hash = h, !.name = nm, !.section = sec])

RenderFieldInverse ==
    /\ op = "new"
    /\ \E f \in FailAts, h \in Hashes, nm \in Names, sec \in Sections :
        Called("render_field_inverse",
               [NoArgs EXCEPT !.failAt = f, !.hash = h, !.name = nm, !.section = sec])

Next ==
    \/ IsTruthy
    \/ CapacityHint
    \/ RenderEscaped
    \/ RenderUnescaped
    \/ RenderCmark
    \/ RenderSection
    \/ RenderInverse
    \/ RenderFieldEscaped
    \/ RenderFieldUnescaped
    \/ RenderFieldSection
    \/ RenderFieldInverse

Spec == Init /\ [][Next]_vars

(***************************************************************************)
(* What a finished call left behind.                                       *)
(***************************************************************************)
IsSectionCall(ev) == ev.call = "render_once"
IsWrite(ev) == ev.call # "render_once"

\* the scopes the bound section was rendered with, in order
Scopes(log) ==
    LET calls == SelectSeq(log, IsSectionCall)
    IN  [i \in 1..Len(calls) |-> calls[i].scope]

\* the calls made on the sink itself, in order
Output(log) == SelectSeq(log, IsWrite)

\* positions of the calls that failed
Failed(log) == {i \in 1..Len(log) : ~log[i].ok}

RECURSIVE Flatten(_)
Flatten(logs) == IF logs = << >> THEN << >> ELSE Head(logs) \o Flatten(Tail(logs))

\* what rendering the section once per element, each alone, writes
PerElement(section, items) ==
    [i \in 1..Len(items) |-> render_once(section, items[i], NewEncoder(0)).enc.log]

\* pointers stripped
RECURSIVE Pointee(_)
Pointee(c) == IF c.k \in PointerKinds THEN Pointee(deref(c)) ELSE c

SectionOps == {"render_section", "render_inverse"}
FieldOps == {"render_field_escaped", "render_field_unescaped",
             "render_field_section", "render_field_inverse"}
RenderOps == {"render_escaped", "render_unescaped", "render_cmark"}
               \cup SectionOps \cup FieldOps

\* the operation a field operation delegates to on the matched value
Delegate(o) ==
    CASE o = "render_field_escaped" -> "render_escaped"
      [] o = "render_field_unescaped" -> "render_unescaped"
      [] o = "render_field_section" -> "render_section"
      [] o = "render_field_inverse" -> "render_inverse"

(***************************************************************************)
(* C1.  Every operation of the trait called on a pointer (&T, Box<T>,      *)
(* Rc<T>, Arc<T>, Cow<T>) returns the same result and leaves the same      *)
(* calls on the sink as the same operation called on the value it wraps.   *)
(* render_cmark is not forwarded by impl_pointer_types!, so this fails.    *)
(***************************************************************************)
C1_PointerForwardsEveryOperation ==
    (op # "new" /\ content.k \in PointerKinds) =>
        Apply(op, deref(content), args) = Ret(result, encoder)

(***************************************************************************)
(* C2.  With a sink that never fails, render_section of a Vec or slice     *)
(* renders the section once per element, in index order, with the element  *)
(* as scope: the log is the concatenation of the per-element renders, and  *)
(* empty for an empty sequence.                                            *)
(***************************************************************************)
C2_SequenceRendersEachElementInOrder ==
    (op = "render_section" /\ content.k \in SeqKinds /\ args.failAt = 0) =>
        /\ result = ResOk
        /\ Scopes(encoder.log) = content.items
        /\ encoder.log = Flatten(PerElement(args.section, content.items))

C2_Witness ==
    /\ op = "render_section" /\ content.k \in SeqKinds /\ args.failAt = 0
    /\ Len(content.items) = MaxLen
    /\ content.items[1] # content.items[MaxLen]
    /\ Len(Scopes(encoder.log)) = MaxLen
    /\ Len(encoder.log) > MaxLen

(***************************************************************************)
(* C3.  When the render of element k fails during render_section of a Vec  *)
(* or slice, elements 1..k-1 were rendered completely and in order, the    *)
(* failing call is the last call made (no element after k is rendered),    *)
(* and the failure of element k is what render_section returns.            *)
(***************************************************************************)
C3_SequenceStopsAtFirstFailure ==
    (op = "render_section" /\ content.k \in SeqKinds /\ result.t = "Err") =>
        LET log == encoder.log
            k == Len(Scopes(log))
            before == Flatten(PerElement(args.section, SubSeq(content.items, 1, k - 1)))
            atK == render_once(args.section, content.items[k],
                               [log |-> before, n |-> Len(Output(before)),
                                failAt |-> args.failAt])
        IN  /\ k \in 1..Len(content.items)
            /\ Scopes(log) = SubSeq(content.items, 1, k)
            /\ SubSeq(log, 1, Len(before)) = before
            /\ Failed(log) = {Len(log)}
            /\ atK.res.t = "Err"
            /\ result = atK.res
            /\ log = atK.enc.log

C3_Witness ==
    /\ op = "render_section" /\ content.k \in SeqKinds /\ result.t = "Err"
    /\ Len(content.items) > 1
    /\ Len(Scopes(encoder.log)) = Len(content.items)
    /\ encoder.log[Len(encoder.log) - 1].ok

(***************************************************************************)
(* C4.  A field operation on a HashMap or BTreeMap looks the name up and   *)
(* ignores the hash: with the key present it runs the matching operation   *)
(* of the value and returns Ok(true) when that succeeds (whatever the      *)
(* value's truthiness) or its failure; with the key absent it returns      *)
(* Ok(false) and calls nothing.                                            *)
(***************************************************************************)
C4_MapFieldFoundIffKeyPresent ==
    (op \in FieldOps /\ content.k \in MapKinds) =>
        /\ \A h \in Hashes :
              Apply(op, content, [args EXCEPT !.hash = h]) = Ret(result, encoder)
        /\ IF args.name \in DOMAIN content.entries
           THEN LET d == Apply(Delegate(op), content.entries[args.name], args)
                IN  /\ encoder = d.enc
                    /\ result = IF d.res.t = "Err" THEN d.res ELSE ResFound(TRUE)
           ELSE /\ result = ResFound(FALSE)
                /\ encoder.log = << >>

C4_Witness ==
    /\ op = "render_field_section" /\ content.k \in MapKinds
    /\ args.hash # 0
    /\ args.name \in DOMAIN content.entries
    /\ DOMAIN content.entries # Names
    /\ ~is_truthy(content.entries[args.name])
    /\ result = ResFound(TRUE)

(***************************************************************************)
(* C5 as stated.  render_section of Some(v) is v's own render_section,     *)
(* for every payload v; render_section of None calls nothing.              *)
(***************************************************************************)
C5_SomeIsPayloadsOwnRenderSection ==
    (op = "render_section" /\ content.k \in {"Some", "None"}) =>
        IF content.k = "Some"
        THEN Ret(result, encoder) =
                 render_section(content.v, args.section, NewEncoder(args.failAt))
        ELSE encoder.log = << >>

\* the types whose render_section is the default of the trait
UsesDefaultSection(c) == c.k \in {"unit", "bool"} \cup TextKinds \cup NumberKinds \cup MapKinds

(***************************************************************************)
(* C5 amended.  render_section of None calls nothing; render_section of    *)
(* Some(v) is section.render_once(v), which is v's own render_section when *)
(* v is truthy and its type keeps the trait's default render_section.      *)
(***************************************************************************)
C5_SomeIsRenderOnceOfPayload ==
    (op = "render_section" /\ content.k \in {"Some", "None"}) =>
        IF content.k = "Some"
        THEN /\ Ret(result, encoder) =
                    render_once(args.section, content.v, NewEncoder(args.failAt))
             /\ (UsesDefaultSection(content.v) /\ is_truthy(content.v)) =>
                    Ret(result, encoder) =
                        render_section(content.v, args.section, NewEncoder(args.failAt))
        ELSE encoder.log = << >>

C5_Witness ==
    /\ op = "render_section" /\ content.k = "Some"
    /\ UsesDefaultSection(content.v) /\ is_truthy(content.v)
    /\ args.section = <<"esc", "text">>
    /\ Len(encoder.log) > Len(args.section)
    /\ result = ResOk

(***************************************************************************)
(* C6.  render_section of Some(v) renders the section exactly once, with   *)
(* v and not the Option as scope, whatever v is; render_section of None    *)
(* renders it zero times and returns Ok.                                   *)
(***************************************************************************)
C6_OptionRendersPayloadOnce ==
    (op = "render_section" /\ content.k \in {"Some", "None"}) =>
        IF content.k = "Some"
        THEN Scopes(encoder.log) = <<content.v>>
        ELSE Scopes(encoder.log) = << >> /\ result = ResOk

C6_Witness ==
    /\ op = "render_section" /\ content.k = "Some"
    /\ ~is_truthy(content.v)
    /\ Scopes(encoder.log) = <<content.v>>
    /\ result = ResOk

\* Ok(v) as Some(v), Err(e) as None
AsOption(c) ==
    CASE c.k = "Ok" -> Some(c.v)
      [] c.k = "Err" -> None
      [] OTHER -> c

\* a log with every scope that is a Result read as an Option
AsOptionLog(log) ==
    [i \in 1..Len(log) |->
        IF IsSectionCall(log[i]) THEN [log[i] EXCEPT !.scope = AsOption(@)] ELSE log[i]]

(***************************************************************************)
(* C7.  Every operation of the trait on a Result behaves as on the Option  *)
(* it maps to (Ok(v) as Some(v), Err(e) as None): the same result, the     *)
(* same calls on the sink, the section rendered as often and with the      *)
(* corresponding scope.  Nothing returned or written for Err(e) depends on *)
(* e: every Err(e2) gives the same result and the same writes, and an      *)
(* error returned is the failure of the sink.                              *)
(***************************************************************************)
C7_ResultBehavesAsOption ==
    (op # "new" /\ content.k \in {"Ok", "Err"}) =>
        LET o == Apply(op, AsOption(content), args)
        IN  /\ result = o.res
            /\ AsOptionLog(encoder.log) = o.enc.log
            /\ encoder.n = o.enc.n
            /\ content.k = "Err" =>
                  /\ \A e2 \in Errors :
                        LET r == Apply(op, Err(e2), args)
                        IN  /\ r.res = result
                            /\ Output(r.enc.log) = Output(encoder.log)
                            /\ Scopes(r.enc.log) = [i \in 1..Len(Scopes(encoder.log)) |-> Err(e2)]
                  /\ result.t = "Err" => Failed(encoder.log) # {}

C7_Witness ==
    /\ op = "render_inverse" /\ content.k = "Err"
    /\ args.failAt = 0
    /\ Scopes(encoder.log) = <<content>>
    /\ Output(encoder.log) # << >>
    /\ result = ResOk

(***************************************************************************)
(* C8.  The sink is the only source of failure.  For every render          *)
(* operation on every value: when no call on the sink failed the operation *)
(* returns Ok; when one failed it is the last call the operation made, to  *)
(* the sink or to the section, and the operation returns that failure.     *)
(***************************************************************************)
C8_SinkIsTheOnlyFailure ==
    (op \in RenderOps) =>
        IF Failed(encoder.log) = {}
        THEN result.t = "Ok"
        ELSE /\ Failed(encoder.log) = {Len(encoder.log)}
             /\ encoder.n = args.failAt
             /\ result = ResErr(args.failAt)

C8_Witness ==
    /\ op = "render_field_section" /\ content.k \in MapKinds
    /\ args.name \in DOMAIN content.entries
    /\ content.entries[args.name].k = "Vec"
    /\ Len(encoder.log) > 1
    /\ result = ResErr(args.failAt)

(***************************************************************************)
(* C10 as stated.  With a sink that never fails, render_section renders    *)
(* the section at least once iff the value is truthy, and render_inverse   *)
(* renders it exactly once, with the value itself as scope, iff the value  *)
(* is not truthy.                                                          *)
(***************************************************************************)
C10_InverseRendersValueItself ==
    (op \in SectionOps /\ args.failAt = 0) =>
        IF op = "render_section"
        THEN (Len(Scopes(encoder.log)) >= 1) <=> is_truthy(content)
        ELSE Scopes(encoder.log) = IF is_truthy(content) THEN << >> ELSE <<content>>

(***************************************************************************)
(* C10 amended.  As stated, except that the scope of the inverse render of *)
(* a pointer is the value the pointer wraps, not the pointer.              *)
(***************************************************************************)
C10_SectionAndInverseAreComplementary ==
    (op \in SectionOps /\ args.failAt = 0) =>
        IF op = "render_section"
        THEN (Len(Scopes(encoder.log)) >= 1) <=> is_truthy(content)
        ELSE Scopes(encoder.log) =
                 IF is_truthy(content) THEN << >> ELSE <<Pointee(content)>>

C10_Witness ==
    /\ op = "render_inverse" /\ args.failAt = 0
    /\ content.k \in PointerKinds
    /\ deref(content) = Vec(<< >>)
    /\ Scopes(encoder.log) = <<Vec(<< >>)>>

(***************************************************************************)
(* Concurrent renders of one shared value.  Several threads hold clones    *)
(* of one Arc<T>; each calls one render operation on it, with its own      *)
(* encoder.  Every operation takes &self: a step reads shared and writes   *)
(* only the thread's own encoder.  The loop of a sequence's render_section *)
(* takes one step per element; any other call is one step.                 *)
(***************************************************************************)
ConcPointees ==
    {Vec([i \in 1..n |-> Integer(i % (MaxInt + 1))]) : n \in 0..MaxLen}
    \cup {String(<<"<", "b", ">">>), Some(String(<<"<", "b", ">">>)), Err("e1")}
ConcOps == {"render_escaped", "render_cmark", "render_section", "render_inverse"}
ConcSections == {<<"esc">>}
ConcFailAts == {0, MaxLen}
Threads == 1..NumThreads

IdleThread == [pc |-> "idle", op |-> "new", args |-> NoArgs, i |-> 1,
               enc |-> NewEncoder(0), res |-> NoResult]

InitConc ==
    /\ shared \in {Pointer("Arc", v) : v \in ConcPointees}
    /\ threads = [t \in Threads |-> IdleThread]
    /\ content = Unit
    /\ op = "concurrent"
    /\ args = NoArgs
    /\ result = NoResult
    /\ encoder = NewEncoder(0)

\* whether the call runs the loop of Vec / slice render_section
RunsLoop(c, o) == o = "render_section" /\ Pointee(c).k \in SeqKinds

\* a thread calls an operation on its clone of the Arc
Call(t) ==
    /\ threads[t].pc = "idle"
    /\ \E o \in ConcOps, f \in ConcFailAts, sec \in ConcSections :
          threads' = [threads EXCEPT ![t] =
              [pc |-> "running", op |-> o,
               args |-> [NoArgs EXCEPT !.failAt = f, !.section = sec],
               i |-> 1, enc |-> NewEncoder(f), res |-> NoResult]]
    /\ UNCHANGED <<content, op, args, result, encoder, shared>>

\* one iteration of `for item in self.iter() { section.render_once(item, encoder)?; }`
LoopStep(t) ==
    LET th == threads[t]
        items == Pointee(shared).items
    IN  /\ th.pc = "running"
        /\ RunsLoop(shared, th.op)
        /\ th.i <= Len(items)
        /\ LET r == Seq_iter_step(items, th.i, th.args.section, th.enc)
           IN  threads' = [threads EXCEPT ![t] =
                   IF IsErr(r)
                   THEN [th EXCEPT !.pc = "done", !.enc = r.enc, !.res = r.res]
                   ELSE [th EXCEPT !.i = @ + 1, !.enc = r.enc]]
        /\ UNCHANGED <<content, op, args, result, encoder, shared>>

\* the loop is over: Ok(())
LoopEnd(t) ==
    LET th == threads[t]
    IN  /\ th.pc = "running"
        /\ RunsLoop(shared, th.op)
        /\ th.i > Len(Pointee(shared).items)
        /\ threads' = [threads EXCEPT ![t] = [th EXCEPT !.pc = "done", !.res = ResOk]]
        /\ UNCHANGED <<content, op, args, result, encoder, shared>>

\* any other call, in one step
Run(t) ==
    LET th == threads[t]
    IN  /\ th.pc = "running"
        /\ ~RunsLoop(shared, th.op)
        /\ LET r == Apply(th.op, shared, th.args)
           IN  threads' = [threads EXCEPT ![t] =
                   [th EXCEPT !.pc = "done", !.enc = r.enc, !.res = r.res]]
        /\ UNCHANGED <<content, op, args, result, encoder, shared>>

NextConc == \E t \in Threads : Call(t) \/ LoopStep(t) \/ LoopEnd(t) \/ Run(t)

SpecConc == InitConc /\ [][NextConc]_vars

\* a finished render has the result and the calls of the operation run alone
C9_FinishedAsAlone ==
    \A t \in DOMAIN threads :
        threads[t].pc = "done" =>
            Ret(threads[t].res, threads[t].enc) =
                Apply(threads[t].op, shared, threads[t].args)

====
